---- MODULE Spec2Model ----
(***************************************************************************)
(* LED Controller API v1.0 (src/src/main.cpp): the serial line accumulator *)
(* of loop(), the command router processCommand(), the five handlers, the  *)
(* response senders and the LM75 temperature decode.                       *)
(*                                                                         *)
(* Representation.                                                         *)
(*  - A JsonDocument is a record of optional fields: <<>> is an absent (or *)
(*    wrongly typed) field, <<v>> a present one; `doc[k] | d` is Or(f, d). *)
(*  - A pixel colour is the packed 24-bit value Adafruit_NeoPixel::Color   *)
(*    builds from three uint8_t arguments.                                 *)
(*  - A response is one record per JSON object printed on Serial; the      *)
(*    float "celsius" is carried in half-degree units (celsius * 2).       *)
(*  - cmd, out, hw and i2c describe the most recent dispatch: the line as  *)
(*    processCommand saw it, what was printed, how many driver calls were  *)
(*    made, and the last I2C transaction.                                  *)
(***************************************************************************)
EXTENDS Integers, Sequences, FiniteSets, TLC

VARIABLES
    pixels,         \* rgb1 / rgb2 pixel buffers: pixels[strip][index]
    frame,          \* what show() last pushed to each physical strip
    ledPin,         \* output on ledPin: [pwm |-> BOOLEAN, value |-> Int]
    relay1,         \* output level on relay1
    relay2,         \* output level on relay2
    lbThreshold,    \* int lbThreshold
    inputBuffer,    \* String inputBuffer, a sequence of byte codes
    inputComplete,  \* bool inputComplete
    rx,             \* bytes waiting in the Serial receive buffer
    pc,             \* where loop() is
    host,           \* bytes the sender has not put on the wire yet
    sent,           \* number of lines the sender has started
    tick,           \* what the current loop() pass has consumed so far
    disp,           \* the most recent dispatch made by loop()
    txline,         \* the line the sender is transmitting, and whether every
                    \* byte of it so far arrived while a handler was running
    held,           \* texts of the lines that arrived wholly while a handler
                    \* was running and have not been dispatched yet
    cmd,            \* the line of the most recent processCommand call
    out,            \* responses printed by the most recent processCommand call
    hw,             \* driver calls made by the most recent processCommand call
    i2c             \* LM75 bus traffic of the most recent processCommand call

devvars  == <<pixels, frame, ledPin, relay1, relay2, lbThreshold>>
loopvars == <<inputBuffer, inputComplete, rx, pc, host, sent, tick, disp,
              txline, held>>
obsvars  == <<cmd, out, hw, i2c>>
vars     == <<pixels, frame, ledPin, relay1, relay2, lbThreshold,
              inputBuffer, inputComplete, rx, pc, host, sent, tick, disp,
              txline, held, cmd, out, hw, i2c>>

----------------------------------------------------------------------------
(* Bounds of the model *)

\* Pixels per strip in the model (the firmware has 78 on each strip).
MaxPixels == 2
\* Lines the sender transmits in one behaviour of the loop model.
MaxLines == 2
\* Capacity of the Serial receive buffer in the loop model.
MaxRx == 3

----------------------------------------------------------------------------
(* Program constants *)

NUM_LEDS_RGB_1 == MaxPixels
NUM_LEDS_RGB_2 == MaxPixels

Strips == {1, 2}

numPixels(strip) == IF strip = 1 THEN NUM_LEDS_RGB_1 ELSE NUM_LEDS_RGB_2

----------------------------------------------------------------------------
(* JSON documents *)

Absent == <<>>
Has(f) == f # <<>>
\* doc[key] | default
Or(f, d) == IF f = <<>> THEN d ELSE f[1]

EmptyDoc ==
    [action |-> Absent, strip |-> Absent, mode |-> Absent, pixel |-> Absent,
     start |-> Absent, end |-> Absent, r |-> Absent, g |-> Absent, b |-> Absent,
     state |-> Absent, value |-> Absent, relay |-> Absent, sensor |-> Absent,
     setting |-> Absent]

\* A line as processCommand classifies it: the help token, a text that
\* deserializeJson rejects, or a decoded document.
HelpLine == [kind |-> "help", doc |-> EmptyDoc]
BadLine  == [kind |-> "bad", doc |-> EmptyDoc]
JsonLine(d) == [kind |-> "json", doc |-> d]
\* cmd before the first processCommand call
NoLine   == [kind |-> "none", doc |-> EmptyDoc]

----------------------------------------------------------------------------
(* Responses printed on Serial, one record per JSON object *)

NoResponse ==
    [status |-> "", message |-> "", args |-> <<>>, note |-> "",
     sensor |-> "", mode |-> "", value |-> Absent, threshold |-> Absent,
     raw_value |-> Absent, celsius2 |-> Absent, range |-> "",
     resolution |-> "", address |-> ""]

\* A message is a format text with the numbers and the word put into it.
Msg(text, args, note) == [text |-> text, args |-> args, note |-> note]

OnOff(state) == IF state THEN "ON" ELSE "OFF"

\* Calls made during one processCommand call: to the drivers, to showHelp
\* and to the five handlers.
NoCalls == [setPixelColor |-> 0, clear |-> 0, show |-> 0,
            digitalWrite |-> 0, analogWrite |-> 0, showHelp |-> 0,
            handler |-> 0]

NoBus == [ack |-> FALSE, wr |-> 0, n |-> 0, msb |-> 0, lsb |-> 0, used |-> FALSE]

\* The machine as processCommand finds it: the device state, nothing printed
\* yet and no driver call made yet.
Machine ==
    [pixels |-> pixels, frame |-> frame, ledPin |-> ledPin, relay1 |-> relay1,
     relay2 |-> relay2, lbThreshold |-> lbThreshold,
     out |-> <<>>, hw |-> NoCalls, i2c |-> NoBus]

sendSuccess(m, msg) ==
    [m EXCEPT !.out = Append(@, [NoResponse EXCEPT !.status = "success",
                                  !.message = msg.text, !.args = msg.args,
                                  !.note = msg.note])]

sendError(m, msg) ==
    [m EXCEPT !.out = Append(@, [NoResponse EXCEPT !.status = "error",
                                  !.message = msg.text, !.args = msg.args,
                                  !.note = msg.note])]

\* serializeJson(response, Serial); Serial.println() of a sensor response
sendData(m, resp) == [m EXCEPT !.out = Append(@, resp)]

\* showHelp prints the documentation text, which is no JSON object.
showHelp(m) == [m EXCEPT !.hw.showHelp = @ + 1]

----------------------------------------------------------------------------
(* Peripheral drivers, as the handlers use them *)

\* Adafruit_NeoPixel::Color(uint8_t r, uint8_t g, uint8_t b): the int
\* arguments are converted to uint8_t, then packed.
Color(r, g, b) == (r % 256) * 65536 + (g % 256) * 256 + (b % 256)

\* setPixelColor(uint16_t n, uint32_t c) stores c when n < numLEDs.
setPixelColor(m, strip, n, c) ==
    IF (n % 65536) < numPixels(strip)
    THEN [m EXCEPT !.pixels[strip][n % 65536] = c,
                   !.hw.setPixelColor = @ + 1]
    ELSE [m EXCEPT !.hw.setPixelColor = @ + 1]

clear(m, strip) ==
    [m EXCEPT !.pixels[strip] = [i \in 0 .. numPixels(strip) - 1 |-> 0],
              !.hw.clear = @ + 1]

show(m, strip) ==
    [m EXCEPT !.frame[strip] = m.pixels[strip], !.hw.show = @ + 1]

\* for (int i = from; i <= to; i++) setPixelColor(i, c)
RECURSIVE setPixels(_, _, _, _, _)
setPixels(m, strip, from, to, c) ==
    IF from > to THEN m
    ELSE setPixels(setPixelColor(m, strip, from, c), strip, from + 1, to, c)

digitalWriteLed(m, state) ==
    [m EXCEPT !.ledPin = [pwm |-> FALSE, value |-> IF state THEN 1 ELSE 0],
              !.hw.digitalWrite = @ + 1]

analogWriteLed(m, value) ==
    [m EXCEPT !.ledPin = [pwm |-> TRUE, value |-> value],
              !.hw.analogWrite = @ + 1]

digitalWriteRelay1(m, state) ==
    [m EXCEPT !.relay1 = state, !.hw.digitalWrite = @ + 1]

digitalWriteRelay2(m, state) ==
    [m EXCEPT !.relay2 = state, !.hw.digitalWrite = @ + 1]

----------------------------------------------------------------------------
(* handleRgbCommand *)

\* Mutant of handleRgbSingle: the strip is cleared before the pixel is set.
handleRgbSingle_ClearsFirst(m, doc, strip) ==
    LET pixel == Or(doc.pixel, 0)
        r == Or(doc.r, 0)
        g == Or(doc.g, 0)
        b == Or(doc.b, 0)
    IN  IF pixel >= 0 /\ pixel < numPixels(strip)
        THEN sendSuccess(show(setPixelColor(clear(m, strip), strip, pixel,
                                            Color(r, g, b)), strip),
                 Msg("Pixel %d on strip %d set to RGB(%d,%d,%d)",
                     <<pixel, strip, r, g, b>>, ""))
        ELSE sendError(m, Msg("Invalid pixel number. Range: 0-%d",
                              <<numPixels(strip) - 1>>, ""))

handleRgbSingle(m, doc, strip) ==
    LET pixel == Or(doc.pixel, 0)
        r == Or(doc.r, 0)
        g == Or(doc.g, 0)
        b == Or(doc.b, 0)
    IN  IF pixel >= 0 /\ pixel < numPixels(strip)
        THEN sendSuccess(show(setPixelColor(m, strip, pixel, Color(r, g, b)), strip),
                 Msg("Pixel %d on strip %d set to RGB(%d,%d,%d)",
                     <<pixel, strip, r, g, b>>, ""))
        ELSE sendError(m, Msg("Invalid pixel number. Range: 0-%d",
                              <<numPixels(strip) - 1>>, ""))

\* Mutant of handleRgbRange: the loop runs from pixel 0 instead of start.
handleRgbRange_FromZero(m, doc, strip) ==
    LET start == Or(doc.start, 0)
        end == Or(doc.end, numPixels(strip) - 1)
        r == Or(doc.r, 0)
        g == Or(doc.g, 0)
        b == Or(doc.b, 0)
    IN  IF start >= 0 /\ end < numPixels(strip) /\ start <= end
        THEN sendSuccess(show(setPixels(m, strip, 0, end, Color(r, g, b)), strip),
                 Msg("Pixels %d-%d on strip %d set to RGB(%d,%d,%d)",
                     <<start, end, strip, r, g, b>>, ""))
        ELSE sendError(m, Msg("Invalid pixel range", <<>>, ""))

handleRgbRange(m, doc, strip) ==
    LET start == Or(doc.start, 0)
        end == Or(doc.end, numPixels(strip) - 1)
        r == Or(doc.r, 0)
        g == Or(doc.g, 0)
        b == Or(doc.b, 0)
    IN  IF start >= 0 /\ end < numPixels(strip) /\ start <= end
        THEN sendSuccess(show(setPixels(m, strip, start, end, Color(r, g, b)), strip),
                 Msg("Pixels %d-%d on strip %d set to RGB(%d,%d,%d)",
                     <<start, end, strip, r, g, b>>, ""))
        ELSE sendError(m, Msg("Invalid pixel range", <<>>, ""))

handleRgbAll(m, doc, strip) ==
    LET r == Or(doc.r, 0)
        g == Or(doc.g, 0)
        b == Or(doc.b, 0)
    IN  sendSuccess(show(setPixels(m, strip, 0, numPixels(strip) - 1,
                                   Color(r, g, b)), strip),
            Msg("All pixels on strip %d set to RGB(%d,%d,%d)",
                <<strip, r, g, b>>, ""))

handleRgbClear(m, doc, strip) ==
    sendSuccess(show(clear(m, strip), strip),
                Msg("Strip %d cleared", <<strip>>, ""))

\* Mutant of handleRgbCommand: no strip validation, any strip other than 1
\* selects rgb2.
handleRgbCommand_NoStripCheck(m, doc) ==
    LET strip == IF Or(doc.strip, 0) = 1 THEN 1 ELSE 2
        mode == Or(doc.mode, "single")
    IN  IF mode = "single" THEN handleRgbSingle(m, doc, strip)
        ELSE IF mode = "range" THEN handleRgbRange(m, doc, strip)
        ELSE IF mode = "all" THEN handleRgbAll(m, doc, strip)
        ELSE IF mode = "clear" THEN handleRgbClear(m, doc, strip)
        ELSE sendError(m, Msg("Invalid mode. Use: single, range, all, clear",
                              <<>>, ""))

handleRgbCommand(m, doc) ==
    LET strip == Or(doc.strip, 0)
        mode == Or(doc.mode, "single")
    IN  IF strip # 1 /\ strip # 2
        THEN sendError(m, Msg("Invalid strip number. Use 1 or 2", <<>>, ""))
        ELSE IF mode = "single" THEN handleRgbSingle(m, doc, strip)
        ELSE IF mode = "range" THEN handleRgbRange(m, doc, strip)
        ELSE IF mode = "all" THEN handleRgbAll(m, doc, strip)
        ELSE IF mode = "clear" THEN handleRgbClear(m, doc, strip)
        ELSE sendError(m, Msg("Invalid mode. Use: single, range, all, clear",
                              <<>>, ""))

----------------------------------------------------------------------------
(* handleLedCommand *)

\* Mutant of handleLedAnalog: the upper bound is not checked.
handleLedAnalog_NoUpperBound(m, doc) ==
    LET value == Or(doc.value, 0)
    IN  IF value >= 0
        THEN sendSuccess(analogWriteLed(m, value),
                         Msg("LED analog value set to %d", <<value>>, ""))
        ELSE sendError(m, Msg("Invalid analog value. Range: 0-255", <<>>, ""))

handleLedAnalog(m, doc) ==
    LET value == Or(doc.value, 0)
    IN  IF value >= 0 /\ value <= 255
        THEN sendSuccess(analogWriteLed(m, value),
                         Msg("LED analog value set to %d", <<value>>, ""))
        ELSE sendError(m, Msg("Invalid analog value. Range: 0-255", <<>>, ""))

handleLedCommand(m, doc) ==
    LET mode == Or(doc.mode, "digital")
    IN  IF mode = "digital"
        THEN LET state == Or(doc.state, FALSE)
             IN  sendSuccess(digitalWriteLed(m, state),
                             Msg("LED set to %s", <<>>, OnOff(state)))
        ELSE IF mode = "analog" THEN handleLedAnalog(m, doc)
        ELSE sendError(m, Msg("Invalid LED mode. Use: digital, analog", <<>>, ""))

----------------------------------------------------------------------------
(* handleRelayCommand *)

\* Mutant of handleRelayCommand: the relay 2 branch drives the relay1 pin.
handleRelayCommand_WrongPin(m, doc) ==
    LET relay == Or(doc.relay, 0)
        state == Or(doc.state, FALSE)
    IN  IF relay = 1
        THEN sendSuccess(digitalWriteRelay1(m, state),
                         Msg("Relay 1 set to %s", <<>>, OnOff(state)))
        ELSE IF relay = 2
        THEN sendSuccess(digitalWriteRelay1(m, state),
                         Msg("Relay 2 set to %s", <<>>, OnOff(state)))
        ELSE sendError(m, Msg("Invalid relay number. Use 1 or 2", <<>>, ""))

handleRelayCommand(m, doc) ==
    LET relay == Or(doc.relay, 0)
        state == Or(doc.state, FALSE)
    IN  IF relay = 1
        THEN sendSuccess(digitalWriteRelay1(m, state),
                         Msg("Relay 1 set to %s", <<>>, OnOff(state)))
        ELSE IF relay = 2
        THEN sendSuccess(digitalWriteRelay2(m, state),
                         Msg("Relay 2 set to %s", <<>>, OnOff(state)))
        ELSE sendError(m, Msg("Invalid relay number. Use 1 or 2", <<>>, ""))

----------------------------------------------------------------------------
(* LM75 helpers *)

\* Mutant of ToInt16: the 16-bit pattern read as unsigned.
ToInt16_Unsigned(x) == x % 65536

\* int16_t: the value of a 16-bit pattern in two's complement
ToInt16(x) == IF (x % 65536) >= 32768 THEN (x % 65536) - 65536 ELSE x % 65536

\* raw >>= 7 on an int16_t: arithmetic shift, i.e. floor division by 128
ShiftRight7(x) == x \div 128

\* The sensor's answers to one dispatch: the bus transaction of lm75Available
\* (ack), of the register-pointer write (wr, 0 = acknowledged), the number of
\* bytes requestFrom delivered (n) and the two bytes read.
\* readLm75Temperature: NAN, or raw * 0.5f carried as raw (half degrees).
readLm75Temperature(env) ==
    IF env.wr # 0 THEN [nan |-> TRUE, half |-> 0]
    ELSE IF env.n # 2 THEN [nan |-> TRUE, half |-> 0]
    ELSE [nan |-> FALSE,
          half |-> ShiftRight7(ToInt16(env.msb * 256 + env.lsb))]

lm75Available(env) == env.ack

----------------------------------------------------------------------------
(* handleReadCommand *)

\* What the hardware inputs answer during one dispatch: analogRead(LB),
\* digitalRead(RS) and the LM75 bus (see readLm75Temperature).
NoEnv == [raw |-> 0, rs |-> FALSE, ack |-> FALSE, wr |-> 0, n |-> 0,
          msb |-> 0, lsb |-> 0]

\* The bus traffic of a temperature read, as far as the code got.
BusOf(env) ==
    IF ~env.ack THEN [NoBus EXCEPT !.used = TRUE]
    ELSE IF env.wr # 0 THEN [NoBus EXCEPT !.used = TRUE, !.ack = TRUE, !.wr = env.wr]
    ELSE IF env.n # 2 THEN [NoBus EXCEPT !.used = TRUE, !.ack = TRUE, !.n = env.n]
    ELSE [ack |-> TRUE, wr |-> 0, n |-> 2, msb |-> env.msb, lsb |-> env.lsb,
          used |-> TRUE]

handleReadTemp(m, env) ==
    LET mb == [m EXCEPT !.i2c = BusOf(env)]
    IN  IF ~lm75Available(env)
        THEN sendError(mb, Msg("LM75 not responding at 0x48", <<>>, ""))
        ELSE LET t == readLm75Temperature(env)
             IN  IF t.nan
                 THEN sendError(mb, Msg("LM75 read error", <<>>, ""))
                 ELSE sendData(mb, [NoResponse EXCEPT !.status = "success",
                                     !.sensor = "temp", !.celsius2 = <<t.half>>,
                                     !.resolution = "0.5", !.address = "0x48"])

\* Mutant of handleReadLb: the comparison written as >=.
handleReadLb_GreaterEqual(m, doc, env) ==
    LET mode == Or(doc.mode, "analog")
    IN  IF mode = "analog"
        THEN sendData(m, [NoResponse EXCEPT !.status = "success",
                           !.sensor = "lb", !.mode = "analog",
                           !.value = <<env.raw>>, !.range = "0-1023"])
        ELSE IF mode = "digital"
        THEN sendData(m, [NoResponse EXCEPT !.status = "success",
                           !.sensor = "lb", !.mode = "digital",
                           !.value = <<IF env.raw >= m.lbThreshold THEN 1 ELSE 0>>,
                           !.threshold = <<m.lbThreshold>>,
                           !.raw_value = <<env.raw>>])
        ELSE sendError(m, Msg("Invalid LB mode. Use: analog, digital", <<>>, ""))

handleReadLb(m, doc, env) ==
    LET mode == Or(doc.mode, "analog")
    IN  IF mode = "analog"
        THEN LET value == env.raw
             IN  sendData(m, [NoResponse EXCEPT !.status = "success",
                               !.sensor = "lb", !.mode = "analog",
                               !.value = <<value>>, !.range = "0-1023"])
        ELSE IF mode = "digital"
        THEN LET value == env.raw
                 digital == value > m.lbThreshold
             IN  sendData(m, [NoResponse EXCEPT !.status = "success",
                               !.sensor = "lb", !.mode = "digital",
                               !.value = <<IF digital THEN 1 ELSE 0>>,
                               !.threshold = <<m.lbThreshold>>,
                               !.raw_value = <<value>>])
        ELSE sendError(m, Msg("Invalid LB mode. Use: analog, digital", <<>>, ""))

\* The part of handleReadCommand after the temperature branch.
handleReadOther(m, doc, env) ==
    LET sensor == Or(doc.sensor, "")
    IN  IF sensor = "lb" THEN handleReadLb(m, doc, env)
        ELSE IF sensor = "rs"
        THEN LET state == env.rs
             IN  sendData(m, [NoResponse EXCEPT !.status = "success",
                               !.sensor = "rs",
                               !.value = <<IF state THEN 1 ELSE 0>>])
        ELSE sendError(m, Msg("Invalid sensor. Use: lb, rs", <<>>, ""))

\* Mutant of handleReadCommand: the temperature branch does not return.
handleReadCommand_NoReturn(m, doc, env) ==
    LET sensor == Or(doc.sensor, "")
    IN  IF sensor = "temp"
        THEN handleReadOther(handleReadTemp(m, env), doc, env)
        ELSE handleReadOther(m, doc, env)

handleReadCommand(m, doc, env) ==
    LET sensor == Or(doc.sensor, "")
    IN  IF sensor = "temp"
        THEN handleReadTemp(m, env)          \* ends in return
        ELSE handleReadOther(m, doc, env)

----------------------------------------------------------------------------
(* handleConfigCommand *)

\* Mutant: the range check of the threshold is missing.
handleConfigThreshold_NoRangeCheck(m, doc) ==
    LET threshold == Or(doc.value, m.lbThreshold)
    IN  sendSuccess([m EXCEPT !.lbThreshold = threshold],
                    Msg("LB threshold set to %d", <<threshold>>, ""))

handleConfigThreshold(m, doc) ==
    LET threshold == Or(doc.value, m.lbThreshold)
    IN  IF threshold >= 0 /\ threshold <= 1023
        THEN sendSuccess([m EXCEPT !.lbThreshold = threshold],
                         Msg("LB threshold set to %d", <<threshold>>, ""))
        ELSE sendError(m, Msg("Invalid threshold value. Range: 0-1023", <<>>, ""))

\* Mutant: an unknown setting puts the threshold back to its boot value before
\* the error is reported.
handleConfigCommand_ResetsOnError(m, doc) ==
    LET setting == Or(doc.setting, "")
    IN  IF setting = "lb_threshold" THEN handleConfigThreshold(m, doc)
        ELSE sendError([m EXCEPT !.lbThreshold = 512],
                       Msg("Invalid setting. Available: lb_threshold", <<>>, ""))

handleConfigCommand(m, doc) ==
    LET setting == Or(doc.setting, "")
    IN  IF setting = "lb_threshold" THEN handleConfigThreshold(m, doc)
        ELSE sendError(m, Msg("Invalid setting. Available: lb_threshold", <<>>, ""))

----------------------------------------------------------------------------
(* processCommand *)

\* String action = doc["action"]: the text of the field, "null" without one.
ActionOf(doc) == Or(doc.action, "null")

\* Entering one of the five handlers.
Enter(m) == [m EXCEPT !.hw.handler = @ + 1]

\* Mutant of Route: no return after the decode error.
Route_NoReturnOnError(m, line, env) ==
    LET m1 == IF line.kind = "bad"
              THEN sendError(m, Msg("Invalid JSON format", <<>>, ""))
              ELSE m
        doc == line.doc
        action == ActionOf(doc)
    IN  IF line.kind = "help" THEN showHelp(m)
        ELSE IF action = "rgb" THEN handleRgbCommand(Enter(m1), doc)
        ELSE IF action = "led" THEN handleLedCommand(Enter(m1), doc)
        ELSE IF action = "relay" THEN handleRelayCommand(Enter(m1), doc)
        ELSE IF action = "read" THEN handleReadCommand(Enter(m1), doc, env)
        ELSE IF action = "config" THEN handleConfigCommand(Enter(m1), doc)
        ELSE sendError(m1, Msg("Unknown action: %s", <<>>, action))

\* The router, after command.trim(): the help test, the decode test and the
\* dispatch on the action field.
Route(m, line, env) ==
    IF line.kind = "help" THEN showHelp(m)
    ELSE IF line.kind = "bad" THEN sendError(m, Msg("Invalid JSON format", <<>>, ""))
    ELSE LET doc == line.doc
             action == ActionOf(doc)
         IN  IF action = "rgb" THEN handleRgbCommand(Enter(m), doc)
             ELSE IF action = "led" THEN handleLedCommand(Enter(m), doc)
             ELSE IF action = "relay" THEN handleRelayCommand(Enter(m), doc)
             ELSE IF action = "read" THEN handleReadCommand(Enter(m), doc, env)
             ELSE IF action = "config" THEN handleConfigCommand(Enter(m), doc)
             ELSE sendError(m, Msg("Unknown action: %s", <<>>, action))

\* One call of processCommand on a line, with the hardware answering env:
\* the device state after it, and cmd, out, hw and i2c describing the call.
processCommand(line, env) ==
    LET m == Route(Machine, line, env)
    IN  /\ pixels' = m.pixels
        /\ frame' = m.frame
        /\ ledPin' = m.ledPin
        /\ relay1' = m.relay1
        /\ relay2' = m.relay2
        /\ lbThreshold' = m.lbThreshold
        /\ cmd' = line
        /\ out' = m.out
        /\ hw' = m.hw
        /\ i2c' = m.i2c

----------------------------------------------------------------------------
(* Lines and hardware answers the models draw from *)

Doc(action) == [EmptyDoc EXCEPT !.action = <<action>>]

\* Colour fields: in the 0-255 range, and out of it.
Tint == << <<255>>, <<0>>, <<44>> >>
TintOver == << <<-1>>, <<256>>, <<300>> >>
NoTint == <<Absent, Absent, Absent>>

IndexIn == {Absent} \cup { <<i>> : i \in -1 .. MaxPixels }

WithColour(d, c) == [d EXCEPT !.r = c[1], !.g = c[2], !.b = c[3]]

RgbSingleDocs ==
    { WithColour([Doc("rgb") EXCEPT !.strip = <<s>>, !.mode = <<"single">>,
                                     !.pixel = p], c) :
        s \in Strips, p \in IndexIn, c \in {Tint, TintOver, NoTint} }
    \cup { WithColour([Doc("rgb") EXCEPT !.strip = <<s>>, !.pixel = p], Tint) :
        s \in Strips, p \in {Absent, <<1>>} }

RgbRangeDocs ==
    { WithColour([Doc("rgb") EXCEPT !.strip = <<s>>, !.mode = <<"range">>,
                                     !.start = a, !.end = e], c) :
        s \in Strips, a \in IndexIn, e \in IndexIn, c \in {Tint} }
    \cup { WithColour([Doc("rgb") EXCEPT !.strip = <<s>>, !.mode = <<"range">>,
                                     !.start = a, !.end = e], NoTint) :
        s \in Strips, a \in {Absent, <<0>>, <<1>>}, e \in {Absent, <<0>>, <<1>>} }
    \cup { WithColour([Doc("rgb") EXCEPT !.strip = <<s>>, !.mode = <<"range">>,
                                     !.start = <<0>>, !.end = <<0>>], TintOver) :
        s \in Strips }

RgbOtherDocs ==
    { WithColour([Doc("rgb") EXCEPT !.strip = <<s>>, !.mode = <<"all">>], c) :
        s \in Strips, c \in {Tint, TintOver, NoTint} }
    \cup { WithColour([Doc("rgb") EXCEPT !.strip = <<s>>, !.mode = <<md>>], c) :
        s \in Strips, md \in {"clear", "blink"}, c \in {Tint} }

\* Strip numbers that are not 1 or 2, with every mode and plausible fields.
RgbBadStripDocs ==
    { WithColour([Doc("rgb") EXCEPT !.strip = s, !.mode = md, !.pixel = <<0>>,
                                     !.start = <<0>>, !.end = <<0>>], Tint) :
        s \in {Absent, <<0>>, <<3>>, <<-1>>},
        md \in {Absent, <<"single">>, <<"range">>, <<"all">>, <<"clear">>,
                <<"blink">>} }

RgbLines ==
    { JsonLine(d) : d \in RgbSingleDocs \cup RgbRangeDocs \cup RgbOtherDocs
                          \cup RgbBadStripDocs }

LedDocs ==
    { [Doc("led") EXCEPT !.mode = md, !.state = st] :
        md \in {Absent, <<"digital">>}, st \in {Absent, <<TRUE>>, <<FALSE>>} }
    \cup { [Doc("led") EXCEPT !.mode = <<"analog">>, !.value = v] :
        v \in {Absent, <<-1>>, <<0>>, <<128>>, <<255>>, <<256>>} }
    \cup { [Doc("led") EXCEPT !.mode = <<"blink">>, !.value = <<255>>,
                              !.state = <<TRUE>>] }

RelayDocs ==
    { [Doc("relay") EXCEPT !.relay = r, !.state = st] :
        r \in {Absent, <<0>>, <<1>>, <<2>>, <<3>>},
        st \in {Absent, <<TRUE>>, <<FALSE>>} }

ConfigDocs ==
    { [Doc("config") EXCEPT !.setting = <<"lb_threshold">>, !.value = v] :
        v \in {Absent, <<-1>>, <<0>>, <<600>>, <<1023>>, <<1024>>} }
    \cup { [Doc("config") EXCEPT !.setting = st, !.value = <<0>>] :
        st \in {Absent, <<"lb_treshold">>} }

OtherDocs ==
    { EmptyDoc, [Doc("reset") EXCEPT !.strip = <<1>>, !.relay = <<1>>,
                                     !.state = <<TRUE>>, !.value = <<0>>] }

ReadDocs ==
    { [Doc("read") EXCEPT !.sensor = <<"lb">>, !.mode = md] :
        md \in {Absent, <<"analog">>, <<"digital">>, <<"raw">>} }
    \cup { [Doc("read") EXCEPT !.sensor = sn] :
        sn \in {Absent, <<"temp">>, <<"rs">>, <<"hum">>} }

IoLines ==
    {HelpLine, BadLine}
    \cup { JsonLine(d) : d \in LedDocs \cup RelayDocs \cup ConfigDocs \cup OtherDocs }

ReadLines == { JsonLine(d) : d \in ReadDocs }

\* analogRead(LB) answers around the thresholds a config command can set.
RawIn == {0, 1, 512, 513, 600, 601, 1023}

\* LM75 answers: absent, write not acknowledged, short read, and register bytes.
BusIn ==
    { [NoEnv EXCEPT !.ack = FALSE],
      [NoEnv EXCEPT !.ack = TRUE, !.wr = 2],
      [NoEnv EXCEPT !.ack = TRUE, !.n = 1] }
    \cup { [NoEnv EXCEPT !.ack = TRUE, !.n = 2, !.msb = b[1], !.lsb = b[2]] :
            b \in { <<1, 144>>, <<255, 128>>, <<127, 255>>, <<128, 0>> } }

\* The answers a line can observe: only what its handler reads varies.
EnvFor(line) ==
    LET sensor == Or(line.doc.sensor, "")
        mode == Or(line.doc.mode, "analog")
    IN  IF sensor = "temp" THEN BusIn
        ELSE IF sensor = "lb" /\ mode \in {"analog", "digital"}
        THEN { [NoEnv EXCEPT !.raw = v] : v \in RawIn }
        ELSE IF sensor = "rs" THEN { [NoEnv EXCEPT !.rs = v] : v \in BOOLEAN }
        ELSE {NoEnv}

\* One line for every branch of the router and of the five handlers.
RouterDocs ==
    { WithColour([Doc("rgb") EXCEPT !.strip = <<s>>, !.mode = <<"single">>,
                                     !.pixel = p], Tint) :
        s \in Strips, p \in {<<0>>, <<MaxPixels>>} }
    \cup { WithColour([Doc("rgb") EXCEPT !.strip = <<s>>, !.mode = <<"range">>,
                                          !.start = a], NoTint) :
        s \in Strips, a \in {<<1>>, <<-1>>} }
    \cup { WithColour([Doc("rgb") EXCEPT !.strip = <<s>>, !.mode = <<md>>], Tint) :
        s \in Strips, md \in {"all", "clear", "blink"} }
    \cup { WithColour([Doc("rgb") EXCEPT !.strip = s, !.mode = <<"all">>], Tint) :
        s \in {Absent, <<0>>, <<3>>} }
    \cup { [Doc("led") EXCEPT !.state = <<TRUE>>],
           [Doc("led") EXCEPT !.mode = <<"digital">>],
           [Doc("led") EXCEPT !.mode = <<"analog">>, !.value = <<255>>],
           [Doc("led") EXCEPT !.mode = <<"analog">>, !.value = <<256>>],
           [Doc("led") EXCEPT !.mode = <<"blink">>] }
    \cup { [Doc("relay") EXCEPT !.relay = r, !.state = st] :
        r \in {<<1>>, <<2>>}, st \in {Absent, <<TRUE>>} }
    \cup { [Doc("relay") EXCEPT !.relay = <<3>>, !.state = <<TRUE>>] }
    \cup { [Doc("config") EXCEPT !.setting = <<"lb_threshold">>, !.value = v] :
        v \in {Absent, <<0>>, <<1024>>} }
    \cup { [Doc("config") EXCEPT !.value = <<0>>] }
    \cup OtherDocs

Lines == {HelpLine, BadLine} \cup { JsonLine(d) : d \in RouterDocs }

RouterEnvFor(line) ==
    LET sensor == Or(line.doc.sensor, "")
    IN  IF sensor = "temp"
        THEN { [NoEnv EXCEPT !.ack = FALSE], [NoEnv EXCEPT !.ack = TRUE, !.n = 1],
               [NoEnv EXCEPT !.ack = TRUE, !.n = 2, !.msb = 1, !.lsb = 144] }
        ELSE IF sensor = "lb" /\ Or(line.doc.mode, "analog") \in {"analog", "digital"}
        THEN { [NoEnv EXCEPT !.raw = v] : v \in {0, 513} }
        ELSE IF sensor = "rs" THEN { [NoEnv EXCEPT !.rs = TRUE] }
        ELSE {NoEnv}

----------------------------------------------------------------------------
(* Bytes and texts of the line accumulator *)

LF == 10
CR == 13
SP == 32

IsTerminator(c) == c = LF \/ c = CR
IsPrintable(c) == c >= 32 /\ c <= 126

\* isspace(), as String::trim uses it
IsSpace(c) == c = SP \/ (c >= 9 /\ c <= 13)

RECURSIVE TrimLeft(_)
TrimLeft(t) ==
    IF t # <<>> /\ IsSpace(Head(t)) THEN TrimLeft(Tail(t)) ELSE t

RECURSIVE TrimRight(_)
TrimRight(t) ==
    IF t # <<>> /\ IsSpace(t[Len(t)]) THEN TrimRight(SubSeq(t, 1, Len(t) - 1)) ELSE t

\* String::trim
Trim(t) == TrimRight(TrimLeft(t))

ToLower(c) == IF c >= 65 /\ c <= 90 THEN c + 32 ELSE c

\* "help"
HelpText == <<104, 101, 108, 112>>

\* String::equalsIgnoreCase
EqualsIgnoreCase(t, u) ==
    /\ Len(t) = Len(u)
    /\ \A i \in 1 .. Len(t) : ToLower(t[i]) = ToLower(u[i])

\* deserializeJson on the texts the loop model can build (letters of "help",
\* spaces and braces): it accepts exactly the texts that begin, after white
\* space, with an empty object, and ignores what follows it; the empty text,
\* an unclosed brace and anything else are errors.
DeserializeJsonFails(t) ==
    LET u == TrimLeft(t)
    IN  IF u = <<>> THEN TRUE
        ELSE IF Head(u) # 123 THEN TRUE
        ELSE LET v == TrimLeft(Tail(u))
             IN  IF v = <<>> THEN TRUE ELSE Head(v) # 125

\* The line processCommand makes of the text it is given.
Parse(text) ==
    LET command == Trim(text)
    IN  IF EqualsIgnoreCase(command, HelpText) THEN HelpLine
        ELSE IF DeserializeJsonFails(command) THEN BadLine
        ELSE JsonLine(EmptyDoc)

NoTick == [terms |-> 0, atTerm |-> <<>>, read |-> 0, flushed |-> 0]
NoDisp == [n |-> 0, text |-> <<>>, atTerm |-> <<>>, terms |-> 0, flushed |-> 0,
           held |-> <<>>]

\* No line is being transmitted.
NoTx == [text |-> <<>>, during |-> FALSE]

----------------------------------------------------------------------------
(* The command models: processCommand called on one line after another *)

Black(strip) == [i \in 0 .. numPixels(strip) - 1 |-> 0]

\* The state setup() leaves.
Init ==
    /\ pixels = [s \in Strips |-> Black(s)]
    /\ frame = [s \in Strips |-> Black(s)]
    /\ ledPin = [pwm |-> FALSE, value |-> 0]
    /\ relay1 = FALSE
    /\ relay2 = FALSE
    /\ lbThreshold = 512
    /\ inputBuffer = <<>>
    /\ inputComplete = FALSE
    /\ rx = <<>>
    /\ pc = "read"
    /\ host = <<>>
    /\ sent = 0
    /\ tick = NoTick
    /\ disp = NoDisp
    /\ txline = NoTx
    /\ held = <<>>
    /\ cmd = NoLine
    /\ out = <<>>
    /\ hw = NoCalls
    /\ i2c = NoBus

\* Every branch of the router and the handlers.
Command ==
    /\ \E line \in Lines : processCommand(line, NoEnv)
    /\ UNCHANGED loopvars

ReadCommand ==
    /\ \E line \in ReadLines : \E env \in RouterEnvFor(line) : processCommand(line, env)
    /\ UNCHANGED loopvars

Next == Command \/ ReadCommand

Spec == Init /\ [][Next]_vars

\* The RGB strip commands, with every pixel index, range and strip number.
RgbCommand ==
    /\ \E line \in RgbLines : processCommand(line, NoEnv)
    /\ UNCHANGED loopvars

NextRgb == RgbCommand

SpecRgb == Init /\ [][NextRgb]_vars

\* The LED, relay, configuration and sensor commands, with every boundary value.
IoCommand ==
    /\ \E line \in IoLines : processCommand(line, NoEnv)
    /\ UNCHANGED loopvars

IoReadCommand ==
    /\ \E line \in ReadLines : \E env \in EnvFor(line) : processCommand(line, env)
    /\ UNCHANGED loopvars

NextIo == IoCommand \/ IoReadCommand

SpecIo == Init /\ [][NextIo]_vars

----------------------------------------------------------------------------
(* The loop model: bytes arrive on the wire while loop() polls *)

\* The lines the sender can transmit, terminator included.
Catalog ==
    { <<104, 101, 108, 112, LF>>,          \* help
      <<SP, 72, 101, LF>>,                 \* " He"
      <<123, 125, CR, LF>>,                \* {} with CR LF
      <<123, 7, LF>>,                      \* { and the control byte BEL
      <<CR>> }                             \* an empty line

\* The sender starts a line.
HostLine ==
    /\ host = <<>>
    /\ sent < MaxLines
    /\ \E l \in Catalog :
          /\ host' = l
          /\ txline' = [text |-> SelectSeq(l, IsPrintable), during |-> TRUE]
    /\ sent' = sent + 1
    /\ UNCHANGED <<inputBuffer, inputComplete, rx, pc, tick, disp, held>>
    /\ UNCHANGED devvars
    /\ UNCHANGED obsvars

\* The transport puts the next byte into the receive buffer, whatever loop()
\* is doing.  A line whose last byte arrives, and whose bytes all arrived
\* between the call of processCommand and the return of loop(), is held.
Arrive ==
    /\ host # <<>>
    /\ Len(rx) < MaxRx
    /\ rx' = Append(rx, Head(host))
    /\ host' = Tail(host)
    /\ LET during == txline.during /\ pc = "handler"
           last   == Tail(host) = <<>>
       IN  /\ txline' = IF last THEN NoTx ELSE [txline EXCEPT !.during = during]
           /\ held' = IF last /\ during THEN Append(held, txline.text) ELSE held
    /\ UNCHANGED <<inputBuffer, inputComplete, pc, sent, tick, disp>>
    /\ UNCHANGED devvars
    /\ UNCHANGED obsvars

\* Mutant: a terminator read while inputBuffer is empty does not complete a
\* line.
Accumulate_SkipsEmptyLine(inChar) ==
    IF IsTerminator(inChar)
    THEN /\ inputComplete' = (inputComplete \/ inputBuffer # <<>>)
         /\ inputBuffer' = inputBuffer
         /\ tick' = [tick EXCEPT !.terms = @ + 1, !.read = @ + 1,
                                 !.atTerm = IF tick.terms = 0 THEN inputBuffer ELSE @]
    ELSE IF IsPrintable(inChar)
    THEN /\ inputBuffer' = Append(inputBuffer, inChar)
         /\ inputComplete' = inputComplete
         /\ tick' = [tick EXCEPT !.read = @ + 1]
    ELSE /\ inputBuffer' = inputBuffer
         /\ inputComplete' = inputComplete
         /\ tick' = [tick EXCEPT !.read = @ + 1]

\* What one pass of the first while loop does with the byte it reads.
Accumulate(inChar) ==
    IF IsTerminator(inChar)
    THEN /\ inputComplete' = TRUE
         /\ inputBuffer' = inputBuffer
         /\ tick' = [tick EXCEPT !.terms = @ + 1, !.read = @ + 1,
                                 !.atTerm = IF tick.terms = 0 THEN inputBuffer ELSE @]
    ELSE IF IsPrintable(inChar)
    THEN /\ inputBuffer' = Append(inputBuffer, inChar)
         /\ inputComplete' = inputComplete
         /\ tick' = [tick EXCEPT !.read = @ + 1]
    ELSE /\ inputBuffer' = inputBuffer
         /\ inputComplete' = inputComplete
         /\ tick' = [tick EXCEPT !.read = @ + 1]

\* while (Serial.available()) { char inChar = (char)Serial.read(); ... }
ReadByte ==
    /\ pc = "read"
    /\ rx # <<>>
    /\ Accumulate(Head(rx))
    /\ rx' = Tail(rx)
    /\ UNCHANGED <<pc, host, sent, disp, txline, held>>
    /\ UNCHANGED devvars
    /\ UNCHANGED obsvars

\* Serial.available() is 0 and no line is complete: loop() returns.
ReadIdle ==
    /\ pc = "read"
    /\ rx = <<>>
    /\ ~inputComplete
    /\ tick # NoTick
    /\ tick' = NoTick
    /\ UNCHANGED <<inputBuffer, inputComplete, rx, pc, host, sent, disp, txline, held>>
    /\ UNCHANGED devvars
    /\ UNCHANGED obsvars

\* Serial.available() is 0 and a line is complete: on to the flush loop.
ReadDone ==
    /\ pc = "read"
    /\ rx = <<>>
    /\ inputComplete
    /\ pc' = "flush"
    /\ UNCHANGED <<inputBuffer, inputComplete, rx, host, sent, tick, disp, txline, held>>
    /\ UNCHANGED devvars
    /\ UNCHANGED obsvars

\* while (Serial.available()) Serial.read();
FlushByte ==
    /\ pc = "flush"
    /\ rx # <<>>
    /\ rx' = Tail(rx)
    /\ tick' = [tick EXCEPT !.flushed = @ + 1]
    /\ UNCHANGED <<inputBuffer, inputComplete, pc, host, sent, disp, txline, held>>
    /\ UNCHANGED devvars
    /\ UNCHANGED obsvars

\* Serial.available() is 0: the flush loop ends and processCommand(inputBuffer)
\* is called.  The handler runs until Return; the oldest held line is the one
\* this dispatch is expected to serve.
Dispatch ==
    /\ pc = "flush"
    /\ rx = <<>>
    /\ processCommand(Parse(inputBuffer), NoEnv)
    /\ disp' = [n |-> disp.n + 1, text |-> inputBuffer, atTerm |-> tick.atTerm,
                terms |-> tick.terms, flushed |-> tick.flushed, held |-> held]
    /\ held' = IF held = <<>> THEN held ELSE Tail(held)
    /\ pc' = "handler"
    /\ UNCHANGED <<inputBuffer, inputComplete, rx, host, sent, tick, txline>>

\* processCommand returns; inputBuffer = ""; inputComplete = false; delay(10);
\* and loop() returns.
Return ==
    /\ pc = "handler"
    /\ inputBuffer' = <<>>
    /\ inputComplete' = FALSE
    /\ pc' = "read"
    /\ tick' = NoTick
    /\ UNCHANGED <<rx, host, sent, disp, txline, held>>
    /\ UNCHANGED devvars
    /\ UNCHANGED obsvars

NextLoop ==
    \/ HostLine
    \/ Arrive
    \/ ReadByte
    \/ ReadIdle
    \/ ReadDone
    \/ FlushByte
    \/ Dispatch
    \/ Return

SpecLoop == Init /\ [][NextLoop]_vars

\* A sender that transmits one more line, all of them short enough to arrive
\* while one handler runs.
ShortCatalog == { <<123, 7, LF>>, <<CR>> }

HostShortLine ==
    /\ host = <<>>
    /\ sent < MaxLines + 1
    /\ \E l \in ShortCatalog :
          /\ host' = l
          /\ txline' = [text |-> SelectSeq(l, IsPrintable), during |-> TRUE]
    /\ sent' = sent + 1
    /\ UNCHANGED <<inputBuffer, inputComplete, rx, pc, tick, disp, held>>
    /\ UNCHANGED devvars
    /\ UNCHANGED obsvars

NextHeld ==
    \/ HostShortLine
    \/ Arrive
    \/ ReadByte
    \/ ReadIdle
    \/ ReadDone
    \/ FlushByte
    \/ Dispatch
    \/ Return

SpecHeld == Init /\ [][NextHeld]_vars

----------------------------------------------------------------------------
(* The temperature model: a temperature read for every pair of register bytes *)

Byte == 0 .. 255

TempLine == JsonLine([Doc("read") EXCEPT !.sensor = <<"temp">>])

\* The first command after boot is a temperature read; the register holds
\* any two bytes.
TempRead ==
    /\ cmd.kind = "none"
    /\ \E msb \in Byte, lsb \in Byte :
          processCommand(TempLine, [NoEnv EXCEPT !.ack = TRUE, !.n = 2,
                                                 !.msb = msb, !.lsb = lsb])
    /\ UNCHANGED loopvars

\* Any later temperature read, with the sampled bus answers.
TempSample ==
    /\ \E env \in BusIn : processCommand(TempLine, env)
    /\ UNCHANGED loopvars

NextTemp == TempRead \/ TempSample

SpecTemp == Init /\ [][NextTemp]_vars

----------------------------------------------------------------------------
(* Claims *)

\* C1 (as stated): the text handed to processCommand is exactly the printable
\* bytes accumulated before the terminator that completed the line; no byte
\* that followed that terminator is part of it.
C1_TextEndsAtTerminator ==
    disp.n > 0 => disp.text = disp.atTerm

LastIs(action) == cmd.kind = "json" /\ cmd.doc.action = <<action>>

ErrorReply(text) ==
    [NoResponse EXCEPT !.status = "error", !.message = text]

\* C2: a read of lb in digital mode reports the threshold in force and
\* classifies raw > threshold as 1, anything else (raw = threshold included)
\* as 0; the threshold is 512 at boot, becomes the value of each successful
\* config lb_threshold command, and is changed by nothing else.
ConfigThresholdOk(line, printed) ==
    /\ line.kind = "json"
    /\ line.doc.action = <<"config">>
    /\ line.doc.setting = <<"lb_threshold">>
    /\ Len(printed) = 1
    /\ printed[1].status = "success"

ReadLbDigital(line) ==
    /\ line.kind = "json"
    /\ line.doc.action = <<"read">>
    /\ line.doc.sensor = <<"lb">>
    /\ line.doc.mode = <<"digital">>

C2_ThresholdClassifies ==
    /\ lbThreshold = 512
    /\ [][lbThreshold' = IF ConfigThresholdOk(cmd', out')
                         THEN Or(cmd'.doc.value, lbThreshold)
                         ELSE lbThreshold]_vars
    /\ [](ReadLbDigital(cmd) =>
            /\ Len(out) = 1
            /\ out[1].status = "success"
            /\ out[1].threshold = <<lbThreshold>>
            /\ Has(out[1].raw_value)
            /\ out[1].value = <<IF out[1].raw_value[1] > lbThreshold THEN 1 ELSE 0>>)

\* C2 witness: after a config to 600, a digital read of raw 600 reports 0.
C2_Witness ==
    /\ ReadLbDigital(cmd)
    /\ out[1].threshold = <<600>>
    /\ out[1].raw_value = <<600>>
    /\ out[1].value = <<0>>

\* Colours as the claims speak of them: a triplet, the triplet's components
\* reduced to 8 bits each, and the packed value a pixel holds.
Given(doc) == <<Or(doc.r, 0), Or(doc.g, 0), Or(doc.b, 0)>>
Low8(c) == <<c[1] % 256, c[2] % 256, c[3] % 256>>
Packed(c) == c[1] * 65536 + c[2] * 256 + c[3]
InColourRange(c) == \A k \in 1 .. 3 : c[k] >= 0 /\ c[k] <= 255

ValidStrip(line) == line.doc.strip \in { <<1>>, <<2>> }

\* Every pixel of both strips other than those of strip s in lo..hi keeps its
\* value, in the buffer and on the physical strip.
OthersKept(s, lo, hi) ==
    \A t \in Strips : \A i \in 0 .. numPixels(t) - 1 :
        (t # s \/ i < lo \/ i > hi) =>
            /\ pixels'[t][i] = pixels[t][i]
            /\ frame'[t][i] = frame[t][i]

\* C3: an rgb command in mode single, for strip 1 or 2 and a pixel within the
\* strip, sets that pixel (buffer and pushed frame) to the given colour, the
\* given triplet itself for components within 0-255 and their low 8 bits
\* otherwise, and changes no other pixel of either strip.
SingleCase(line) ==
    /\ line.kind = "json"
    /\ line.doc.action = <<"rgb">>
    /\ ValidStrip(line)
    /\ Or(line.doc.mode, "single") = "single"
    /\ Or(line.doc.pixel, 0) >= 0
    /\ Or(line.doc.pixel, 0) < numPixels(line.doc.strip[1])

C3_SingleSetsOnePixel ==
    [][SingleCase(cmd') =>
        LET s == cmd'.doc.strip[1]
            p == Or(cmd'.doc.pixel, 0)
            c == Given(cmd'.doc)
        IN  /\ pixels'[s][p] = Packed(Low8(c))
            /\ InColourRange(c) => pixels'[s][p] = Packed(c)
            /\ frame'[s][p] = pixels'[s][p]
            /\ OthersKept(s, p, p)
            /\ Len(out') = 1 /\ out'[1].status = "success"]_vars

\* C3 witness: pixel 0 of strip 1 was just set to black by a single command
\* while pixel 1 of strip 1 and pixel 0 of strip 2 still hold a colour.
C3_Witness ==
    /\ SingleCase(cmd)
    /\ cmd.doc.strip = <<1>>
    /\ cmd.doc.pixel = <<0>>
    /\ pixels[1][0] = 0
    /\ pixels[1][1] = Packed(<<255, 0, 44>>)
    /\ pixels[2][0] = Packed(<<255, 0, 44>>)
    /\ frame = pixels

\* C4: an rgb command in mode range with 0 <= start <= end < stripLength, for
\* strip 1 or 2, sets every pixel in start..end of that strip to the given
\* colour and leaves every pixel outside it, and the other strip, unchanged.
RangeCase(line) ==
    /\ line.kind = "json"
    /\ line.doc.action = <<"rgb">>
    /\ ValidStrip(line)
    /\ line.doc.mode = <<"range">>
    /\ Or(line.doc.start, 0) >= 0
    /\ Or(line.doc.start, 0) <= Or(line.doc.end, numPixels(line.doc.strip[1]) - 1)
    /\ Or(line.doc.end, numPixels(line.doc.strip[1]) - 1) < numPixels(line.doc.strip[1])

C4_RangeSetsRange ==
    [][RangeCase(cmd') =>
        LET s == cmd'.doc.strip[1]
            lo == Or(cmd'.doc.start, 0)
            hi == Or(cmd'.doc.end, numPixels(s) - 1)
            c == Given(cmd'.doc)
        IN  /\ \A i \in lo .. hi :
                  /\ pixels'[s][i] = Packed(Low8(c))
                  /\ InColourRange(c) => pixels'[s][i] = Packed(c)
                  /\ frame'[s][i] = pixels'[s][i]
            /\ OthersKept(s, lo, hi)
            /\ Len(out') = 1 /\ out'[1].status = "success"]_vars

\* C4 witness: the range 1..1 of strip 2 was just set to black while pixel 0
\* of strip 2 and pixel 1 of strip 1 still hold a colour.
C4_Witness ==
    /\ RangeCase(cmd)
    /\ cmd.doc.strip = <<2>>
    /\ cmd.doc.start = <<1>>
    /\ cmd.doc.end = <<1>>
    /\ pixels[2][1] = 0
    /\ pixels[2][0] = Packed(<<255, 0, 44>>)
    /\ pixels[1][1] = Packed(<<255, 0, 44>>)
    /\ frame = pixels

\* C5: an rgb command whose strip is not 1 or 2 (absent included) is answered
\* with exactly the error "Invalid strip number. Use 1 or 2", whatever its
\* mode, and writes no pixel and pushes no frame on either strip.
BadStripCase(line) ==
    /\ line.kind = "json"
    /\ line.doc.action = <<"rgb">>
    /\ ~ValidStrip(line)

C5_BadStripNoWrite ==
    [][BadStripCase(cmd') =>
        /\ out' = <<ErrorReply("Invalid strip number. Use 1 or 2")>>
        /\ hw'.setPixelColor = 0
        /\ hw'.clear = 0
        /\ hw'.show = 0
        /\ pixels' = pixels
        /\ frame' = frame]_vars

\* C5 witness: a clear for strip 3 was just refused while both strips hold a
\* colour.
C5_Witness ==
    /\ BadStripCase(cmd)
    /\ cmd.doc.strip = <<3>>
    /\ cmd.doc.mode = <<"clear">>
    /\ pixels[1][0] = Packed(<<255, 0, 44>>)
    /\ pixels[2][0] = Packed(<<255, 0, 44>>)
    /\ out = <<ErrorReply("Invalid strip number. Use 1 or 2")>>

\* C6: an led command in mode analog with a value outside 0..255 is answered
\* with an error and makes no PWM write, the LED output staying as it was;
\* with a value in 0..255, 0 and 255 included, it succeeds and the PWM duty
\* is exactly that value.
LedAnalogCase(line) ==
    /\ line.kind = "json"
    /\ line.doc.action = <<"led">>
    /\ line.doc.mode = <<"analog">>

C6_LedAnalogRange ==
    [][LedAnalogCase(cmd') =>
        LET value == Or(cmd'.doc.value, 0)
        IN  IF value >= 0 /\ value <= 255
            THEN /\ ledPin' = [pwm |-> TRUE, value |-> value]
                 /\ hw'.analogWrite = 1
                 /\ Len(out') = 1 /\ out'[1].status = "success"
            ELSE /\ ledPin' = ledPin
                 /\ hw'.analogWrite = 0
                 /\ hw'.digitalWrite = 0
                 /\ Len(out') = 1 /\ out'[1].status = "error"]_vars

\* C6 witness: value 256 was just refused while the LED keeps the duty 255
\* an earlier command gave it.
C6_Witness ==
    /\ LedAnalogCase(cmd)
    /\ cmd.doc.value = <<256>>
    /\ ledPin = [pwm |-> TRUE, value |-> 255]
    /\ out = <<ErrorReply("Invalid analog value. Range: 0-255")>>

\* C7: a relay command whose relay is not 1 or 2 is answered with an error
\* and changes neither relay output; one for relay 1 (resp. 2) sets that
\* relay's output to the requested state and leaves the other one as it was.
RelayCase(line) ==
    /\ line.kind = "json"
    /\ line.doc.action = <<"relay">>

C7_RelaysIndependent ==
    [][RelayCase(cmd') =>
        LET relay == Or(cmd'.doc.relay, 0)
            state == Or(cmd'.doc.state, FALSE)
        IN  /\ relay = 1 => /\ relay1' = state
                            /\ relay2' = relay2
                            /\ out'[1].status = "success"
            /\ relay = 2 => /\ relay2' = state
                            /\ relay1' = relay1
                            /\ out'[1].status = "success"
            /\ relay \notin {1, 2} => /\ relay1' = relay1
                                      /\ relay2' = relay2
                                      /\ hw'.digitalWrite = 0
                                      /\ out'[1].status = "error"
            /\ Len(out') = 1]_vars

\* C7 witness: relay 2 was just switched off while relay 1 stays on.
C7_Witness ==
    /\ RelayCase(cmd)
    /\ cmd.doc.relay = <<2>>
    /\ cmd.doc.state = <<FALSE>>
    /\ relay1 = TRUE
    /\ relay2 = FALSE
    /\ out[1].status = "success"

\* C8: a dispatched line that is not help and that deserializeJson rejects
\* is answered with exactly {"status":"error","message":"Invalid JSON
\* format"}; no handler is entered, no driver is called and the device state
\* stays as it was.
C8_BadJsonRejected ==
    [][cmd'.kind = "bad" =>
        /\ out' = <<ErrorReply("Invalid JSON format")>>
        /\ hw' = NoCalls
        /\ UNCHANGED devvars]_vars

\* C8 witness: a malformed line was just refused in a state where a strip,
\* the LED, a relay and the threshold all differ from their boot values.
C8_Witness ==
    /\ cmd.kind = "bad"
    /\ out = <<ErrorReply("Invalid JSON format")>>
    /\ pixels[1][0] # 0
    /\ ledPin = [pwm |-> TRUE, value |-> 255]
    /\ relay2 = TRUE
    /\ lbThreshold = 0

\* C9: the temperature a successful read reports, in half degrees, is the
\* signed 9-bit number made of msb and the top bit of lsb (-256..255), which
\* is the 16-bit two's complement value of the two bytes shifted right
\* arithmetically by 7; bytes 0x01, 0x90 give 3 half degrees (1.5 C).
Signed9(u) == IF u >= 256 THEN u - 512 ELSE u

TempReadCase ==
    /\ cmd = TempLine
    /\ i2c.ack
    /\ i2c.wr = 0
    /\ i2c.n = 2

C9_TemperatureDecode ==
    TempReadCase =>
        /\ Len(out) = 1
        /\ out[1].status = "success"
        /\ out[1].celsius2 = <<Signed9(i2c.msb * 2 + i2c.lsb \div 128)>>
        /\ out[1].celsius2[1] \in -256 .. 255
        /\ (i2c.msb = 1 /\ i2c.lsb = 144) => out[1].celsius2 = <<3>>
        /\ i2c.msb >= 128 => out[1].celsius2[1] < 0

\* C9 witness: bytes 0xFF, 0x80 were read and -0.5 C was reported.
C9_Witness ==
    /\ TempReadCase
    /\ i2c.msb = 255
    /\ i2c.lsb = 128
    /\ out[1].celsius2 = <<-1>>

\* C10: every dispatched line other than help produces exactly one response
\* object, whose status is "success" or "error".
C10_OneResponse ==
    (cmd.kind \in {"bad", "json"}) =>
        /\ Len(out) = 1
        /\ out[1].status \in {"success", "error"}

\* C10 witness: a temperature read was just answered with its one success
\* response.
C10_Witness ==
    /\ LastIs("read")
    /\ cmd.doc.sensor = <<"temp">>
    /\ Len(out) = 1
    /\ out[1].status = "success"
    /\ out[1].sensor = "temp"

\* C11 (as stated): a line whose bytes all arrived while the handler of a
\* previous command was running is not lost: the dispatch that follows the
\* previous command hands that line, and nothing else, to processCommand.
C11_HeldLineDispatched ==
    disp.held # <<>> => disp.text = Head(disp.held)

\* C12: lbThreshold is always an integer in 0..1023; it is 512 at boot; it
\* changes only in a config command with setting lb_threshold whose value is
\* present and in 0..1023, and then becomes that value; such a command
\* without a value succeeds, reports the threshold in force and leaves it
\* as it is.
ConfigThreshold(line) ==
    /\ line.kind = "json"
    /\ line.doc.action = <<"config">>
    /\ line.doc.setting = <<"lb_threshold">>

C12_ThresholdInRange ==
    /\ lbThreshold = 512
    /\ [](lbThreshold \in 0 .. 1023)
    /\ [][lbThreshold' # lbThreshold =>
            /\ ConfigThreshold(cmd')
            /\ cmd'.doc.value # Absent
            /\ cmd'.doc.value[1] \in 0 .. 1023
            /\ lbThreshold' = cmd'.doc.value[1]]_vars
    /\ [][ConfigThreshold(cmd') /\ cmd'.doc.value = Absent =>
            /\ lbThreshold' = lbThreshold
            /\ Len(out') = 1
            /\ out'[1].status = "success"
            /\ out'[1].args = <<lbThreshold>>]_vars

\* A threshold other than the boot value, written by the last command, which
\* carried the largest value allowed.
C12_Witness ==
    /\ ConfigThreshold(cmd)
    /\ cmd.doc.value = <<1023>>
    /\ lbThreshold = 1023
    /\ out[1].status = "success"

\* C13: a command answered with status "error" leaves both strips' pixel
\* buffers and pushed frames, the LED output, both relay outputs and
\* lbThreshold as they were, and makes no driver call that writes an output;
\* so does every read command, whatever its answer.
AnsweredError(printed) ==
    \E k \in 1 .. Len(printed) : printed[k].status = "error"

NoOutputWritten(calls) ==
    /\ calls.setPixelColor = 0
    /\ calls.clear = 0
    /\ calls.show = 0
    /\ calls.digitalWrite = 0
    /\ calls.analogWrite = 0

IsRead(line) == line.kind = "json" /\ line.doc.action = <<"read">>

C13_ErrorsAndReadsKeepState ==
    [][AnsweredError(out') \/ IsRead(cmd') =>
          /\ UNCHANGED devvars
          /\ NoOutputWritten(hw')]_vars

\* An out-of-range pixel was just refused on a strip that an earlier command
\* had lit, with a relay on and a threshold other than the boot value.
C13_Witness ==
    /\ LastIs("rgb")
    /\ cmd.doc.mode = <<"single">>
    /\ AnsweredError(out)
    /\ \E s \in Strips : frame[s][0] # 0
    /\ relay1
    /\ lbThreshold # 512

\* C14: a pass of loop() that consumed at least one terminator makes exactly
\* one call of processCommand, however many terminators it consumed and even
\* with an empty inputBuffer, and ends with inputBuffer empty and
\* inputComplete false; an empty text is answered with the one error
\* "Invalid JSON format"; a pass that consumed no terminator makes no call
\* and keeps inputBuffer.
\*   - processCommand is called only from the flush position of a pass that
\*     consumed a terminator, with the accumulated text, and then the handler
\*     position is entered, which is left only by the end of the pass;
\*   - a pass ends from the handler position when it consumed a terminator,
\*     and without a call and with inputBuffer kept when it consumed none.
C14_OneDispatchPerTick ==
    /\ []((tick.terms >= 1) = inputComplete)
    /\ [](pc \in {"flush", "handler"} => inputComplete)
    /\ [](pc = "handler" => disp.terms = tick.terms /\ disp.text = inputBuffer)
    /\ [](disp.n > 0 /\ disp.text = <<>> =>
            out = <<ErrorReply("Invalid JSON format")>>)
    /\ [][disp' # disp =>
            /\ pc = "flush" /\ pc' = "handler"
            /\ tick.terms >= 1
            /\ disp'.n = disp.n + 1
            /\ disp'.text = inputBuffer
            /\ disp'.terms = tick.terms]_vars
    /\ [][pc = "handler" /\ pc' # "handler" =>
            /\ pc' = "read"
            /\ tick' = NoTick
            /\ inputBuffer' = <<>>
            /\ inputComplete' = FALSE
            /\ disp' = disp]_vars
    /\ [][tick # NoTick /\ tick' = NoTick =>
            IF tick.terms >= 1
            THEN pc = "handler"
            ELSE disp' = disp /\ inputBuffer' = inputBuffer /\ pc' = "read"]_vars

\* A pass that consumed two terminators with nothing accumulated has ended:
\* its one dispatch, the second of the run, was of the empty text.
C14_Witness ==
    /\ disp.n = 2
    /\ disp.terms = 2
    /\ disp.text = <<>>
    /\ out = <<ErrorReply("Invalid JSON format")>>
    /\ pc = "read"
    /\ tick = NoTick
    /\ inputBuffer = <<>>
    /\ inputComplete = FALSE

=============================================================================
